---- MODULE Spec2Model ----
(***************************************************************************)
(* GoLoad (src/main.go): the registry of downloads behind one mutex, the   *)
(* three HTTP handlers (addDownload, getDownloads, clearFailed), the sweep  *)
(* cleanInvalidDownloads and the goroutine startDownload.                   *)
(*                                                                         *)
(* One action is one critical section of downloadsMu, or one file-system   *)
(* call, together with the goroutine-local statements that precede it.     *)
(* The network, the disk, the wall clock and the external deletion of      *)
(* files are the environment.                                              *)
(***************************************************************************)
EXTENDS Integers, Sequences, FiniteSets, TLC

(* ------------------------------ bounds -------------------------------- *)

\* concurrent HTTP requests being served
NumHandlers == 2
\* startDownload goroutines ever started
MaxWorkers == 2
\* readings of the wall clock: time.Now().UnixNano() is in 1..MaxClock
MaxClock == 2
\* bytes in a response body
MaxBody == 2
\* seconds that time.Since(startTime) reports
MaxElapsed == 1

Handlers == 1..NumHandlers
Workers == 1..MaxWorkers

(* ------------------------- requests and responses ---------------------- *)

\* A request URL after url.Parse: the host and the segments of Path.
URLS ==
  { [host |-> "a", path |-> <<"f.zip">>],
    [host |-> "a", path |-> <<"x+y.mp4">>],
    [host |-> "b", path |-> <<"d", "f.zip">>] }

\* two URLs whose files have different names
PlainURLS ==
  { [host |-> "a", path |-> <<"f.zip">>],
    [host |-> "a", path |-> <<"x+y.mp4">>] }

\* Content-Type headers a server may send ("" : none).
ContentTypes == {"", "video/mp4"}

\* the headers the server of a URL sends: host "a" sends none, host "b" sends
\* none or labels its file a video
Served(url) == IF url.host = "b" THEN ContentTypes ELSE {""}

\* two URLs whose files have the same name
SameNameURLS ==
  { [host |-> "a", path |-> <<"f.zip">>],
    [host |-> "b", path |-> <<"d", "f.zip">>] }

\* resp.ContentLength: -1 is "unknown".
ContentLengths == {-1, 0, MaxBody}

\* buf := make([]byte, 32*1024)
BufSize == 32 * 1024

Min(a, b) == IF a <= b THEN a ELSE b

(* ------------------------------ helpers ------------------------------- *)

\* filepath.Join of two components
Join(a, b) == a \o "/" \o b

downloadDir == "GoLoad"

\* filepath.Base of the URL's path
Base(path) == IF path = <<>> THEN "." ELSE path[Len(path)]

\* url.QueryUnescape on the file names of URLS: "+" is a space, "%xx" a byte,
\* a "%" not followed by two hex digits is an error.
QueryUnescape(s) ==
  CASE s = "x+y.mp4" -> [ok |-> TRUE, val |-> "x y.mp4"]
    [] s = "100%.zip" -> [ok |-> FALSE, val |-> ""]
    [] OTHER -> [ok |-> TRUE, val |-> s]

getFilename(fileURL) ==
  LET filename == Base(fileURL.path)
      dec == QueryUnescape(filename)
  IN  IF ~dec.ok THEN filename ELSE dec.val

\* filepath.Ext on the file names of URLS
Ext(filename) ==
  CASE filename \in {"f.zip", "100%.zip"} -> ".zip"
    [] filename \in {"x y.mp4", "x+y.mp4"} -> ".mp4"
    [] OTHER -> ""

\* mime.TypeByExtension
TypeByExtension(ext) ==
  CASE ext = ".zip" -> "application/zip"
    [] ext = ".mp4" -> "video/mp4"
    [] OTHER -> ""

getCategoryDir(filename, mimeType0) ==
  LET mimeType == IF mimeType0 = "" THEN TypeByExtension(Ext(filename)) ELSE mimeType0
      category ==
        CASE mimeType \in {"video/mp4", "video/x-matroska"} -> "videos"
          [] mimeType \in {"audio/mpeg", "audio/wav", "audio/flac"} -> "audio"
          [] mimeType \in {"application/zip", "application/x-rar-compressed"} -> "compressed"
          [] OTHER -> "unknown"
  IN  Join(downloadDir, category)

\* fmt.Sprintf("%d", n)
Sprintf_d(n) == ToString(n)

RECURSIVE GCD(_, _)
GCD(a, b) == IF b = 0 THEN a ELSE GCD(b, a % b)

Abs(n) == IF n < 0 THEN -n ELSE n

\* A float64 that is a ratio of two integers, in lowest terms: <<n, d>> with
\* d > 0, or <<1, 0>> for +Inf.
Ratio(n, d) ==
  IF d = 0 THEN <<1, 0>>
  ELSE LET g == GCD(Abs(n), Abs(d))
           s == IF d < 0 THEN -1 ELSE 1
       IN  <<(s * n) \div g, (s * d) \div g>>

Zero == <<0, 1>>

\* progress := (float64(sizeCurrent) / float64(sizeTotal)) * 100
ProgressOf(sizeCurrent, sizeTotal) == Ratio(sizeCurrent * 100, sizeTotal)

\* speed := int64(float64(sizeCurrent) / duration)
SpeedOf(sizeCurrent, duration) == sizeCurrent \div duration

(* ------------------------------- state -------------------------------- *)

VARIABLES
  downloads,  \* the map id -> *Download (a record per key that is present)
  files,      \* the disk: path -> the goroutine whose os.Create made the file
  clock,      \* the wall clock, as time.Now().UnixNano() reads it
  handler,    \* per HTTP request being served: position, locals, response,
              \* and (history) the owners of the records it had to remove
  worker,     \* per startDownload goroutine: position and locals
  issued,     \* history: url -> the id the latest /add response for it carried
  panicked,   \* a goroutine dereferenced a nil *Download: the process is gone
  quiet       \* history: calls, the clearFailed calls begun one after another
              \* (at most 2) with nothing else requested, no download failing
              \* and no file deleted since the first of them began; completed,
              \* whether a download became completed since then

vars == <<downloads, files, clock, handler, worker, issued, panicked, quiet>>

\* &Download{ID: id, URL: url, Status: "in_progress"}. Owner is the goroutine
\* that addDownload starts for the struct; it stands for the struct's address.
NewDownload(id, url, w) ==
  [ID |-> id, URL |-> url, Filename |-> "", Filepath |-> "",
   Status |-> "in_progress", SizeCurrent |-> 0, SizeTotal |-> 0,
   Progress |-> Zero, Speed |-> 0, Owner |-> w]

NoURL == [host |-> "", path |-> << >>]

\* make(map[string]*Download)
EmptyMap == [k \in {} |-> 0]

NoResp == [message |-> "", id |-> ""]

IdleHandler ==
  [pc |-> "idle", url |-> NoURL, id |-> "", resp |-> NoResp, removed |-> {}]

\* a request whose response is written
Done(resp) == [IdleHandler EXCEPT !.pc = "done", !.resp = resp]

UnusedWorker ==
  [pc |-> "unused", id |-> "", url |-> NoURL, filename |-> "", tempPath |-> "",
   finalPath |-> "", sizeTotal |-> 0, sizeCurrent |-> 0, err |-> "nil"]

\* no clearFailed call has begun since the last disturbance
Noisy == [calls |-> 0, completed |-> FALSE]

Init ==
  /\ downloads = EmptyMap
  /\ files = EmptyMap
  /\ clock = 1
  /\ handler = [p \in Handlers |-> IdleHandler]
  /\ worker = [w \in Workers |-> UnusedWorker]
  /\ issued = [u \in URLS |-> ""]
  /\ panicked = FALSE
  /\ quiet = Noisy

\* delete(m, k) for every k in ks
Without(m, ks) == [k \in (DOMAIN m) \ ks |-> m[k]]

\* m[k] = v
With(m, k, v) == [x \in (DOMAIN m) \cup {k} |-> IF x = k THEN v ELSE m[x]]

Exists(path) == path \in DOMAIN files

(* ------------------------ cleanInvalidDownloads ------------------------ *)

\* the keys the sweep deletes
Invalid(dls, fs) ==
  { id \in DOMAIN dls :
      /\ dls[id].Filepath # ""
      /\ dls[id].Status = "completed"
      /\ dls[id].Filepath \notin DOMAIN fs }

\* the sweep with the test of os.Stat's error inverted
cleanExistingDownloads(dls, fs) ==
  Without(dls, { id \in DOMAIN dls :
                   /\ dls[id].Filepath # ""
                   /\ dls[id].Status = "completed"
                   /\ dls[id].Filepath \in DOMAIN fs })

cleanInvalidDownloads(dls, fs) == Without(dls, Invalid(dls, fs))

(* ------------------------------ registry ------------------------------ *)

\* the loop looking only at the downloads that are still running
FindRunningURL(dls, url) ==
  { id \in DOMAIN dls : dls[id].URL = url /\ dls[id].Status = "in_progress" }

\* addDownload's loop over the map: the keys whose record has the URL
FindURL(dls, url) == { id \in DOMAIN dls : dls[id].URL = url }

\* id := fmt.Sprintf("%d", time.Now().UnixNano())
NewId(now) == Sprintf_d(now)

\* updateStatus: a no-op when the key is absent
updateStatus(dls, id, status) ==
  IF id \in DOMAIN dls THEN [dls EXCEPT ![id].Status = status] ELSE dls

\* the keys clearFailed deletes
Failed(dls) == { id \in DOMAIN dls : dls[id].Status = "failed" }

\* clearFailed deleting every record that is not in_progress
clearFinished(dls) ==
  Without(dls, { id \in DOMAIN dls : dls[id].Status # "in_progress" })

clearFailed(dls) == Without(dls, Failed(dls))

\* getDownloads: the copies appended to list
Snapshot(dls) == { dls[id] : id \in DOMAIN dls }

\* the history kept for the records that are still tracked: a URL whose
\* issued id is no longer the key of a record with that URL is forgotten
Tracked(iss, dls) ==
  [u \in DOMAIN iss |->
     IF iss[u] \in DOMAIN dls /\ dls[iss[u]].URL = u THEN iss[u] ELSE ""]

\* goroutines started so far, and those a request in flight is about to start
Started == { w \in Workers : worker[w].pc # "unused" }
Pending == { p \in Handlers : handler[p].pc \in {"add_id", "add_insert"} }

(* ------------------------------ downloadsMu ---------------------------- *)

\* the positions at which a handler holds downloadsMu from one step to the
\* next: inside cleanInvalidDownloads (lines 47-55), and at a c.JSON that is
\* called before the Unlock (lines 71, 203, 217)
SweepPcs == {"sweep_add", "sweep_bad", "sweep_list", "sweep_clear"}
WritePcs == {"add_write", "list_write", "clear_write"}

LockedPcs == SweepPcs \cup WritePcs

Holds(p) == handler[p].pc \in LockedPcs

\* downloadsMu.Lock() returns only when nobody holds the mutex
Free == \A p \in Handlers : ~Holds(p)

(* ------------------------------- history ------------------------------- *)

\* the sweep that opens a ClearFailed call
IsClearSweep(p) == handler[p].pc = "idle" /\ handler'[p].pc = "clear_del"

\* the deletion that ends a ClearFailed call
IsClearDelete(p) == handler[p].pc = "clear_del" /\ handler'[p].pc = "done"

\* tempPath := filepath.Join(downloadDir, "temp", filename+".goloadtemp")
TempPath(filename) == Join(Join(downloadDir, "temp"), filename \o ".goloadtemp")

\* the temp files of the URLS
TempPaths == { TempPath(getFilename(u)) : u \in URLS }

\* the step ends a run of clearFailed calls: a request other than clearFailed
\* begins, a record becomes failed, or a downloaded file is deleted
Disturbed ==
  \/ \E p \in Handlers :
       handler[p].pc = "idle" /\ handler'[p].pc \notin {"idle", "clear_del"}
  \/ \E id \in (DOMAIN downloads) \cap (DOMAIN downloads') :
       downloads[id].Status # "failed" /\ downloads'[id].Status = "failed"
  \/ \E path \in (DOMAIN files) \ TempPaths : path \notin DOMAIN files'

\* the step makes a record completed
Completes ==
  \E id \in (DOMAIN downloads) \cap (DOMAIN downloads') :
    downloads[id].Status # "completed" /\ downloads'[id].Status = "completed"

\* quiet after the step
Recorded ==
  quiet' = IF \E p \in Handlers : IsClearSweep(p)
             THEN [quiet EXCEPT !.calls = Min(quiet.calls + 1, 2)]
           ELSE IF quiet = Noisy \/ Disturbed THEN Noisy
           ELSE IF Completes /\ quiet.calls >= 1
             THEN [quiet EXCEPT !.completed = TRUE]
           ELSE quiet

(* ----------------------------- addDownload ----------------------------- *)

\* cleanInvalidDownloads(), then c.BindJSON succeeds with url
AddSweep(p, url) ==
  /\ ~panicked
  /\ handler[p].pc = "idle"
  /\ Free
  /\ downloads' = cleanInvalidDownloads(downloads, files)
  /\ handler' = [handler EXCEPT ![p].pc = "add_check", ![p].url = url]
  /\ UNCHANGED <<files, clock, worker, panicked>>
  /\ issued' = Tracked(issued, downloads')
  /\ Recorded

\* cleanInvalidDownloads(), then c.BindJSON fails: 400 and return
AddInvalidJSON(p) ==
  /\ ~panicked
  /\ handler[p].pc = "idle"
  /\ Free
  /\ downloads' = cleanInvalidDownloads(downloads, files)
  /\ handler' = [handler EXCEPT ![p] = Done([NoResp EXCEPT !.message = "Invalid JSON"])]
  /\ UNCHANGED <<files, clock, worker, panicked>>
  /\ issued' = Tracked(issued, downloads')
  /\ Recorded

\* the loop finds a record with the URL (map order decides which one)
AddExists(p) ==
  /\ ~panicked
  /\ handler[p].pc = "add_check"
  /\ Free
  /\ \E id \in FindURL(downloads, handler[p].url) :
       /\ handler' = [handler EXCEPT ![p] =
            Done([NoResp EXCEPT !.message = "Download already exists",
                                !.id = downloads[id].ID])]
       /\ issued' = [issued EXCEPT ![handler[p].url] = downloads[id].ID]
  /\ UNCHANGED <<downloads, files, clock, worker, panicked>>
  /\ Recorded

\* the loop finds none: unlock and go on
AddMiss(p) ==
  /\ ~panicked
  /\ handler[p].pc = "add_check"
  /\ Free
  /\ FindURL(downloads, handler[p].url) = {}
  /\ Cardinality(Started) + Cardinality(Pending) < MaxWorkers
  /\ handler' = [handler EXCEPT ![p].pc = "add_id"]
  /\ UNCHANGED <<downloads, files, clock, worker, issued, panicked>>
  /\ Recorded

\* id := fmt.Sprintf("%d", time.Now().UnixNano())
AddId(p) ==
  /\ ~panicked
  /\ handler[p].pc = "add_id"
  /\ handler' = [handler EXCEPT ![p].pc = "add_insert", ![p].id = NewId(clock)]
  /\ UNCHANGED <<downloads, files, clock, worker, issued, panicked>>
  /\ Recorded

\* downloads[id] = &Download{...}; go startDownload(id, url); 200
AddInsert(p) ==
  /\ ~panicked
  /\ handler[p].pc = "add_insert"
  /\ Free
  /\ LET w == Cardinality(Started) + 1
         id == handler[p].id
         url == handler[p].url
     IN  /\ downloads' = With(downloads, id, NewDownload(id, url, w))
         /\ worker' = [worker EXCEPT ![w] =
              [UnusedWorker EXCEPT !.pc = "get", !.id = id, !.url = url]]
         /\ handler' = [handler EXCEPT ![p] =
              Done([NoResp EXCEPT !.message = "Download started", !.id = id])]
         /\ issued' = Tracked([issued EXCEPT ![url] = id], downloads')
  /\ UNCHANGED <<files, clock, panicked>>
  /\ Recorded

(* ----------------------------- getDownloads ---------------------------- *)

ListSweep(p) ==
  /\ ~panicked
  /\ handler[p].pc = "idle"
  /\ Free
  /\ downloads' = cleanInvalidDownloads(downloads, files)
  /\ handler' = [handler EXCEPT
       ![p].pc = "list_snap",
       ![p].removed = { downloads[id].Owner : id \in
                          { k \in DOMAIN downloads :
                              /\ downloads[k].Status = "completed"
                              /\ downloads[k].Filepath # ""
                              /\ ~Exists(downloads[k].Filepath) } }]
  /\ UNCHANGED <<files, clock, worker, panicked>>
  /\ issued' = Tracked(issued, downloads')
  /\ Recorded

\* list = append(list, *dl) for every record; c.JSON(http.StatusOK, list)
\* writes Snapshot(downloads) to the client before the lock is released
ListSnap(p) ==
  /\ ~panicked
  /\ handler[p].pc = "list_snap"
  /\ Free
  /\ handler' = [handler EXCEPT ![p] = Done([NoResp EXCEPT !.message = "list"])]
  /\ UNCHANGED <<downloads, files, clock, worker, issued, panicked>>
  /\ Recorded

(* ----------------------------- clearFailed ----------------------------- *)

ClearSweep(p) ==
  /\ ~panicked
  /\ handler[p].pc = "idle"
  /\ Free
  /\ downloads' = cleanInvalidDownloads(downloads, files)
  /\ handler' = [handler EXCEPT ![p].pc = "clear_del"]
  /\ UNCHANGED <<files, clock, worker, panicked>>
  /\ issued' = Tracked(issued, downloads')
  /\ Recorded

ClearDelete(p) ==
  /\ ~panicked
  /\ handler[p].pc = "clear_del"
  /\ Free
  /\ downloads' = clearFailed(downloads)
  /\ handler' = [handler EXCEPT ![p] =
       [Done([NoResp EXCEPT !.message = "Failed downloads cleared"]) EXCEPT
          !.removed = { downloads[id].Owner : id \in
                          { k \in DOMAIN downloads :
                              downloads[k].Status = "failed" } }]]
  /\ UNCHANGED <<files, clock, worker, panicked>>
  /\ issued' = Tracked(issued, downloads')
  /\ Recorded

\* the response has been written: the request is over
Return(p) ==
  /\ ~panicked
  /\ handler[p].pc = "done"
  /\ handler' = [handler EXCEPT ![p] = IdleHandler]
  /\ UNCHANGED <<downloads, files, clock, worker, issued, panicked>>
  /\ Recorded

(* ----------------------------- startDownload ---------------------------- *)

\* downloads[id] of a key that is absent is a nil *Download
Present(id) == id \in DOMAIN downloads

\* the goroutine has returned
Finish(w) == [worker EXCEPT ![w] = [UnusedWorker EXCEPT !.pc = "done"]]

\* the goroutine has returned on a Read or Write error (err keeps that fact)
FinishOnError(w) ==
  [worker EXCEPT ![w] = [UnusedWorker EXCEPT !.pc = "done", !.err = "err"]]

\* http.Get returns an error
WGetFail(w) ==
  /\ ~panicked
  /\ worker[w].pc = "get"
  /\ Free
  /\ downloads' = updateStatus(downloads, worker[w].id, "failed")
  /\ worker' = Finish(w)
  /\ UNCHANGED <<files, clock, handler, issued, panicked>>
  /\ Recorded

\* the locals startDownload computes from a response with this Content-Type
\* and this ContentLength
Received(w, ctype, total) ==
  LET filename == getFilename(worker[w].url)
      categoryDir == getCategoryDir(filename, ctype)
  IN  [worker[w] EXCEPT
         !.filename = filename,
         !.tempPath = TempPath(filename),
         !.finalPath = Join(categoryDir, filename),
         !.url = NoURL,
         !.sizeTotal = total]

\* http.Get succeeds, os.Create(tempPath) fails
WCreateFail(w) ==
  /\ ~panicked
  /\ worker[w].pc = "get"
  /\ Free
  /\ downloads' = updateStatus(downloads, worker[w].id, "failed")
  /\ worker' = Finish(w)
  /\ UNCHANGED <<files, clock, handler, issued, panicked>>
  /\ Recorded

\* http.Get succeeds, os.Create(tempPath) makes the file or truncates the one
\* that is there
WCreate(w) ==
  /\ ~panicked
  /\ worker[w].pc = "get"
  /\ \E ctype \in Served(worker[w].url), total \in ContentLengths :
       LET loc == Received(w, ctype, total)
       IN  /\ worker' = [worker EXCEPT ![w] = [loc EXCEPT !.pc = "meta"]]
           /\ files' = IF loc.tempPath \in DOMAIN files THEN files
                       ELSE With(files, loc.tempPath, w)
  /\ UNCHANGED <<downloads, clock, handler, issued, panicked>>
  /\ Recorded

\* lines 110-114: Filename, Filepath, SizeTotal
WMeta(w) ==
  /\ ~panicked
  /\ worker[w].pc = "meta"
  /\ Free
  /\ IF Present(worker[w].id)
     THEN /\ downloads' = [downloads EXCEPT
                ![worker[w].id].Filename = worker[w].filename,
                ![worker[w].id].Filepath = worker[w].finalPath,
                ![worker[w].id].SizeTotal = worker[w].sizeTotal]
          /\ worker' = [worker EXCEPT ![w].pc = "read"]
          /\ UNCHANGED panicked
     ELSE /\ panicked' = TRUE
          /\ UNCHANGED <<downloads, worker>>
  /\ UNCHANGED <<files, clock, handler, issued>>
  /\ Recorded

\* the bytes the body can still deliver: net/http delivers exactly
\* ContentLength bytes when it is known, any number when it is -1
Left(w) ==
  IF worker[w].sizeTotal >= 0
  THEN worker[w].sizeTotal - worker[w].sizeCurrent
  ELSE MaxBody - worker[w].sizeCurrent

\* Read may report io.EOF once n more bytes are delivered
MayEnd(w, n) == worker[w].sizeTotal < 0 \/ n = Left(w)

\* the errors Read may return together with n bytes
ReadErrs(w, n) == IF MayEnd(w, n) THEN {"nil", "EOF", "err"} ELSE {"nil", "err"}

\* Read returns n = 0 and an error that is not io.EOF
WReadErr(w) ==
  /\ ~panicked
  /\ worker[w].pc = "read"
  /\ Free
  /\ downloads' = updateStatus(downloads, worker[w].id, "failed")
  /\ worker' = FinishOnError(w)
  /\ UNCHANGED <<files, clock, handler, issued, panicked>>
  /\ Recorded

\* Read returns n > 0, writer.Write fails
WWriteFail(w) ==
  /\ ~panicked
  /\ worker[w].pc = "read"
  /\ Free
  /\ Left(w) > 0
  /\ downloads' = updateStatus(downloads, worker[w].id, "failed")
  /\ worker' = FinishOnError(w)
  /\ UNCHANGED <<files, clock, handler, issued, panicked>>
  /\ Recorded

\* where the loop goes after a chunk, by the err of its Read
AfterChunk(err) ==
  CASE err = "EOF" -> "rename"
    [] err = "nil" -> "read"
    [] OTHER -> "fail"

\* the goroutine after a chunk is published
Looped(w, sizeCurrent, err) ==
  [worker[w] EXCEPT !.sizeCurrent = sizeCurrent, !.err = "nil",
                    !.pc = AfterChunk(err)]

\* lines 137-142 on the map: SizeCurrent, Progress
PublishSize(dls, id, sizeCurrent, sizeTotal) ==
  [dls EXCEPT ![id].SizeCurrent = sizeCurrent,
              ![id].Progress = ProgressOf(sizeCurrent, sizeTotal)]

\* Read returns n > 0 and err, the chunk is written, duration > 0:
\* lines 133-135 publish Speed
WChunkSpeed(w) ==
  /\ ~panicked
  /\ worker[w].pc = "read"
  /\ Free
  /\ \E n \in 1..Min(Left(w), BufSize) :
       \E err \in ReadErrs(w, n), duration \in 1..MaxElapsed :
         LET sizeCurrent == worker[w].sizeCurrent + n
         IN  IF Present(worker[w].id)
             THEN /\ downloads' = [downloads EXCEPT
                        ![worker[w].id].Speed = SpeedOf(sizeCurrent, duration)]
                  /\ worker' = [worker EXCEPT ![w].sizeCurrent = sizeCurrent,
                                              ![w].err = err,
                                              ![w].pc = "size"]
                  /\ UNCHANGED panicked
             ELSE /\ panicked' = TRUE
                  /\ UNCHANGED <<downloads, worker>>
  /\ UNCHANGED <<files, clock, handler, issued>>
  /\ Recorded

\* Read returns n > 0 and err, the chunk is written, duration = 0: Speed is
\* skipped, lines 137-142 publish SizeCurrent and Progress
WChunkSize(w) ==
  /\ ~panicked
  /\ worker[w].pc = "read"
  /\ Free
  /\ \E n \in 1..Min(Left(w), BufSize) :
       \E err \in ReadErrs(w, n) :
         LET sizeCurrent == worker[w].sizeCurrent + n
         IN  IF Present(worker[w].id)
             THEN /\ downloads' = PublishSize(downloads, worker[w].id,
                                              sizeCurrent, worker[w].sizeTotal)
                  /\ worker' = [worker EXCEPT ![w] = Looped(w, sizeCurrent, err)]
                  /\ UNCHANGED panicked
             ELSE /\ panicked' = TRUE
                  /\ UNCHANGED <<downloads, worker>>
  /\ UNCHANGED <<files, clock, handler, issued>>
  /\ Recorded

\* lines 137-142 after Speed was published
WSize(w) ==
  /\ ~panicked
  /\ worker[w].pc = "size"
  /\ Free
  /\ IF Present(worker[w].id)
     THEN /\ downloads' = PublishSize(downloads, worker[w].id,
                                      worker[w].sizeCurrent, worker[w].sizeTotal)
          /\ worker' = [worker EXCEPT ![w] =
                          Looped(w, worker[w].sizeCurrent, worker[w].err)]
          /\ UNCHANGED panicked
     ELSE /\ panicked' = TRUE
          /\ UNCHANGED <<downloads, worker>>
  /\ UNCHANGED <<files, clock, handler, issued>>
  /\ Recorded

\* lines 147-150: the Read that delivered the chunk also returned an error
WFail(w) ==
  /\ ~panicked
  /\ worker[w].pc = "fail"
  /\ Free
  /\ downloads' = updateStatus(downloads, worker[w].id, "failed")
  /\ worker' = FinishOnError(w)
  /\ UNCHANGED <<files, clock, handler, issued, panicked>>
  /\ Recorded

\* the loop has ended: the chunk came with io.EOF, or Read returns n = 0 and
\* io.EOF
AtEOF(w) ==
  \/ worker[w].pc = "rename"
  \/ worker[w].pc = "read" /\ MayEnd(w, 0)

\* the disk after os.Rename(oldpath, newpath): the file moves, or, when
\* oldpath is gone, nothing happens and the error is dropped
Rename(fs, oldpath, newpath) ==
  IF oldpath \in DOMAIN fs
  THEN With(Without(fs, {oldpath}), newpath, fs[oldpath])
  ELSE fs

\* os.Rename(tempPath, finalPath)
WRename(w) ==
  /\ ~panicked
  /\ AtEOF(w)
  /\ files' = Rename(files, worker[w].tempPath, worker[w].finalPath)
  /\ worker' = [worker EXCEPT ![w].pc = "complete"]
  /\ UNCHANGED <<downloads, clock, handler, issued, panicked>>
  /\ Recorded

\* updateStatus(id, "completed")
WComplete(w) ==
  /\ ~panicked
  /\ worker[w].pc = "complete"
  /\ Free
  /\ downloads' = updateStatus(downloads, worker[w].id, "completed")
  /\ worker' = Finish(w)
  /\ UNCHANGED <<files, clock, handler, issued, panicked>>
  /\ Recorded

(* ----------------------------- environment ----------------------------- *)

\* the wall clock advances
Tick ==
  /\ ~panicked
  /\ clock < MaxClock
  /\ clock' = clock + 1
  /\ UNCHANGED <<downloads, files, handler, worker, issued, panicked>>
  /\ Recorded

\* somebody deletes a downloaded file
DeleteFile(path) ==
  /\ ~panicked
  /\ path \in DOMAIN files
  /\ path \notin TempPaths
  /\ files' = Without(files, {path})
  /\ UNCHANGED <<downloads, clock, handler, worker, issued, panicked>>
  /\ Recorded

(* ---------------------------- specification ---------------------------- *)

Request(p, urls) ==
  \/ \E url \in urls : AddSweep(p, url)
  \/ AddInvalidJSON(p)
  \/ AddExists(p)
  \/ AddMiss(p)
  \/ AddId(p)
  \/ AddInsert(p)
  \/ ListSweep(p)
  \/ ListSnap(p)
  \/ ClearSweep(p)
  \/ ClearDelete(p)
  \/ Return(p)

Download(w) ==
  \/ WGetFail(w)
  \/ WCreateFail(w)
  \/ WCreate(w)
  \/ WMeta(w)
  \/ WReadErr(w)
  \/ WWriteFail(w)
  \/ WChunkSpeed(w)
  \/ WChunkSize(w)
  \/ WSize(w)
  \/ WFail(w)
  \/ WRename(w)
  \/ WComplete(w)

Environment ==
  \/ Tick
  \/ \E path \in DOMAIN files : DeleteFile(path)

Next ==
  \/ \E p \in Handlers : Request(p, URLS)
  \/ \E w \in Workers : Download(w)
  \/ Environment

Spec == Init /\ [][Next]_vars

\* One connection: the requests are served one after another, while the
\* downloads they started run concurrently.
SerialNext ==
  \/ Request(1, PlainURLS)
  \/ \E w \in Workers : Download(w)
  \/ Environment

SerialSpec == Init /\ [][SerialNext]_vars

\* Concurrent requests while no host can be reached: every http.Get fails.
RaceNext ==
  \/ \E p \in Handlers : Request(p, PlainURLS)
  \/ \E w \in Workers : WGetFail(w)
  \/ Tick

RaceSpec == Init /\ [][RaceNext]_vars

\* the Submit requests of a connection
Submit(p, urls) ==
  \/ \E url \in urls : AddSweep(p, url)
  \/ AddExists(p)
  \/ AddMiss(p)
  \/ AddId(p)
  \/ AddInsert(p)
  \/ Return(p)

\* a download whose server answers, whose temp file can be created and
\* whose chunks all arrive within the same second
Fetch(w) ==
  \/ WCreate(w)
  \/ WMeta(w)
  \/ WReadErr(w)
  \/ WChunkSize(w)
  \/ WFail(w)
  \/ WRename(w)
  \/ WComplete(w)

\* One connection submitting two URLs that end in the same file name, while
\* nobody touches the downloaded files.
SameNameNext ==
  \/ Submit(1, SameNameURLS)
  \/ \E w \in Workers : Fetch(w)
  \/ Tick

SameNameSpec == Init /\ [][SameNameNext]_vars

\* One connection submitting URLs and clearing the registry while the
\* downloads run; the Go scheduler lets every goroutine that can take a step
\* take one eventually, and every Get and Read returns (MaxBody bounds a body).
FairNext ==
  \/ Submit(1, PlainURLS)
  \/ ClearSweep(1)
  \/ ClearDelete(1)
  \/ \E w \in Workers : Fetch(w)
  \/ Tick

FairSpec ==
  Init /\ [][FairNext]_vars /\ \A w \in Workers : WF_vars(Fetch(w))

(* ------------------- the handlers, statement by statement -------------- *)

\* the request a sweep position belongs to, and where it goes on
AfterSweep(pc) ==
  CASE pc = "sweep_add" -> "add_check"
    [] pc = "sweep_list" -> "list_snap"
    [] pc = "sweep_clear" -> "clear_del"
    [] OTHER -> "done"

\* line 47: a handler calls cleanInvalidDownloads, which takes the mutex
SweepLock(p, pc, url) ==
  /\ ~panicked
  /\ handler[p].pc = "idle"
  /\ Free
  /\ handler' = [handler EXCEPT ![p].pc = pc, ![p].url = url]
  /\ UNCHANGED <<downloads, files, clock, worker, issued, panicked>>
  /\ Recorded

\* lines 49-55: os.Stat of the completed records, the deletions, and the
\* deferred Unlock; then BindJSON for addDownload
SweepStat(p) ==
  /\ ~panicked
  /\ handler[p].pc \in SweepPcs
  /\ downloads' = cleanInvalidDownloads(downloads, files)
  /\ handler' = [handler EXCEPT ![p] =
       IF handler[p].pc = "sweep_bad"
       THEN Done([NoResp EXCEPT !.message = "Invalid JSON"])
       ELSE [handler[p] EXCEPT
               !.pc = AfterSweep(handler[p].pc),
               !.removed = { downloads[id].Owner : id \in Invalid(downloads, files) }]]
  /\ UNCHANGED <<files, clock, worker, panicked>>
  /\ issued' = Tracked(issued, downloads')
  /\ Recorded

\* lines 68-70: Lock, and the loop finds a record with the URL
AddFound(p) ==
  /\ ~panicked
  /\ handler[p].pc = "add_check"
  /\ Free
  /\ \E id \in FindURL(downloads, handler[p].url) :
       handler' = [handler EXCEPT ![p].pc = "add_write",
                                  ![p].id = downloads[id].ID]
  /\ UNCHANGED <<downloads, files, clock, worker, issued, panicked>>
  /\ Recorded

\* lines 71-73: c.JSON, Unlock, return
AddWrite(p) ==
  /\ ~panicked
  /\ handler[p].pc = "add_write"
  /\ handler' = [handler EXCEPT ![p] =
       Done([NoResp EXCEPT !.message = "Download already exists",
                           !.id = handler[p].id])]
  /\ issued' = Tracked([issued EXCEPT ![handler[p].url] = handler[p].id],
                       downloads)
  /\ UNCHANGED <<downloads, files, clock, worker, panicked>>
  /\ Recorded

\* lines 196-202: Lock, and the records are copied into list
ListCopy(p) ==
  /\ ~panicked
  /\ handler[p].pc = "list_snap"
  /\ Free
  /\ handler' = [handler EXCEPT ![p].pc = "list_write"]
  /\ UNCHANGED <<downloads, files, clock, worker, issued, panicked>>
  /\ Recorded

\* line 203: c.JSON, then the deferred Unlock
ListWrite(p) ==
  /\ ~panicked
  /\ handler[p].pc = "list_write"
  /\ handler' = [handler EXCEPT ![p] = Done([NoResp EXCEPT !.message = "list"])]
  /\ UNCHANGED <<downloads, files, clock, worker, issued, panicked>>
  /\ Recorded

\* lines 208-215: Lock, and the failed records are deleted
ClearLoop(p) ==
  /\ ~panicked
  /\ handler[p].pc = "clear_del"
  /\ Free
  /\ downloads' = clearFailed(downloads)
  /\ handler' = [handler EXCEPT ![p].pc = "clear_write"]
  /\ UNCHANGED <<files, clock, worker, panicked>>
  /\ issued' = Tracked(issued, downloads')
  /\ Recorded

\* line 217: c.JSON, then the deferred Unlock
ClearWrite(p) ==
  /\ ~panicked
  /\ handler[p].pc = "clear_write"
  /\ handler' = [handler EXCEPT ![p] =
       Done([NoResp EXCEPT !.message = "Failed downloads cleared"])]
  /\ UNCHANGED <<downloads, files, clock, worker, issued, panicked>>
  /\ Recorded

\* the requests for one URL
OneURL == { [host |-> "a", path |-> <<"f.zip">>] }

LockRequest(p) ==
  \/ \E url \in OneURL : SweepLock(p, "sweep_add", url)
  \/ \E pc \in SweepPcs \ {"sweep_add"} : SweepLock(p, pc, NoURL)
  \/ SweepStat(p)
  \/ AddFound(p)
  \/ AddWrite(p)
  \/ AddMiss(p)
  \/ AddId(p)
  \/ AddInsert(p)
  \/ ListCopy(p)
  \/ ListWrite(p)
  \/ ClearLoop(p)
  \/ ClearWrite(p)
  \/ Return(p)

\* One connection with requests for one URL, the handler followed statement
\* by statement through its Lock and Unlock calls while the downloads run.
LockNext ==
  \/ LockRequest(1)
  \/ \E w \in Workers : Download(w)
  \/ Environment

LockSpec == Init /\ [][LockNext]_vars

(* ------------------------------- claims -------------------------------- *)

\* the fields of a record that addDownload and startDownload write
Fields(dl) ==
  <<dl.ID, dl.URL, dl.Filename, dl.Filepath, dl.Status, dl.SizeCurrent,
    dl.SizeTotal, dl.Progress, dl.Speed>>

\* the same struct is under key id before and after the step
Same(id) ==
  /\ id \in DOMAIN downloads
  /\ id \in DOMAIN downloads'
  /\ downloads'[id].Owner = downloads[id].Owner

\* C1: in every reachable state the registry holds at most one record per
\* distinct URL value.
C1_OneRecordPerURL ==
  \A i, j \in DOMAIN downloads :
    downloads[i].URL = downloads[j].URL => i = j

\* the goroutines that are running
Running == { w \in Workers : worker[w].pc \notin {"unused", "done"} }

\* the requests that hold a fresh id and are about to insert under it
Inserting == { p \in Handlers : handler[p].pc = "add_insert" }

\* C3: every id allocated by Submit is unique: the id a Submit has obtained is
\* the id of no record in the registry, of no running download and of no
\* other Submit, so that inserting a new record never overwrites a record.
C3_IdsUnique ==
  /\ \A p \in Inserting :
       /\ handler[p].id \notin DOMAIN downloads
       /\ \A q \in Inserting \ {p} : handler[q].id # handler[p].id
       /\ \A w \in Running : worker[w].id # handler[p].id
  /\ \A v, w \in Running : worker[v].id = worker[w].id => v = w

\* C8: a record with status failed stays in the registry, with status failed,
\* across every step that is not the deletion of a ClearFailed call; the
\* invalidation sweep never removes a failed or in_progress record.
C8_FailedStaysUntilCleared ==
  [][ \A id \in DOMAIN downloads :
        /\ ( /\ downloads[id].Status = "failed"
             /\ ~ \E p \in Handlers :
                    handler[p].pc = "clear_del" /\ handler'[p].pc = "done" )
           => Same(id) /\ downloads'[id].Status = "failed"
        /\ ( /\ downloads[id].Status \in {"failed", "in_progress"}
             /\ \E p \in Handlers :
                  /\ handler[p].pc = "idle"
                  /\ handler'[p].pc \in {"add_check", "list_snap", "clear_del"} )
           => Same(id)
    ]_vars

\* C9: for downloads submitted with distinct URLs, each record's fields are
\* only ever written by the worker started for that record's own Submit: a
\* step that changes a field of a record, while no other worker was started
\* with the record's URL, is a step of the record's owner.
C9_OnlyOwnerWrites ==
  [][ \A id \in DOMAIN downloads :
        ( /\ Same(id)
          /\ Fields(downloads'[id]) # Fields(downloads[id])
          /\ \A w \in Workers \ {downloads[id].Owner} :
               worker[w].url # downloads[id].URL )
          => worker'[downloads[id].Owner] # worker[downloads[id].Owner]
    ]_vars

\* C10: when the HTTP GET of a worker fails, the record ends with status
\* failed and every other field exactly as Submit created it, and the worker
\* performs no further step.
C10_GetFailureLeavesRecord ==
  [][ \A w \in Workers :
        (worker[w].pc = "get" /\ worker'[w].pc = "done")
          => /\ worker[w].id \in DOMAIN downloads'
             /\ Fields(downloads'[worker[w].id]) =
                  Fields([NewDownload(worker[w].id, worker[w].url, w)
                            EXCEPT !.Status = "failed"])
    ]_vars

\* C4: the status of a record only ever changes in_progress -> completed or
\* in_progress -> failed; a record that is completed or failed keeps its
\* status for as long as it is in the registry.
C4_StatusMonotone ==
  [][ \A id \in DOMAIN downloads :
        (Same(id) /\ downloads'[id].Status # downloads[id].Status)
          => /\ downloads[id].Status = "in_progress"
             /\ downloads'[id].Status \in {"completed", "failed"}
    ]_vars

\* C5: when a worker whose response declared a total T > 0 has read chunks
\* summing to N bytes and ends without error, its record holds
\* size_current = N and, if N = T, progress = 100 and status = completed.
C5_FinalSizeAndProgress ==
  [][ \A w \in Workers :
        ( /\ worker[w].pc = "complete"
          /\ worker'[w].pc = "done"
          /\ worker[w].sizeTotal > 0
          /\ worker[w].id \in DOMAIN downloads' )
          => LET dl == downloads'[worker[w].id]
             IN  /\ dl.SizeCurrent = worker[w].sizeCurrent
                 /\ worker[w].sizeCurrent = worker[w].sizeTotal
                      => dl.Progress = <<100, 1>> /\ dl.Status = "completed"
    ]_vars

\* the record the latest /add response for url named is still in the registry
Held(url) == issued[url] # ""

\* ... and is in_progress or completed
HeldLive(url) ==
  /\ Held(url)
  /\ downloads[issued[url]].Status \in {"in_progress", "completed"}

\* ... and the sweep finds nothing wrong with it
HeldValid(url) ==
  /\ Held(url)
  /\ \/ downloads[issued[url]].Status = "in_progress"
     \/ /\ downloads[issued[url]].Status = "completed"
        /\ \/ downloads[issued[url]].Filepath = ""
           \/ downloads[issued[url]].Filepath \in DOMAIN files

\* the second Submit of url by request p, from its sweep to its response,
\* given that its URL was among urls when it began: the first record stays,
\* and the response is "already exists" with the first id, the registry and
\* the goroutines are as they were, and one record has the URL
SecondSubmit(p, urls) ==
  /\ ( /\ handler[p].pc = "idle"
       /\ handler'[p].pc = "add_check"
       /\ handler'[p].url \in urls )
     => issued'[handler'[p].url] # ""
  /\ ( /\ handler[p].pc = "add_check"
       /\ Held(handler[p].url) )
     => \/ /\ handler'[p] = handler[p]
           /\ issued'[handler[p].url] # ""
        \/ /\ handler'[p] = Done([message |-> "Download already exists",
                                  id |-> issued[handler[p].url]])
           /\ downloads' = downloads
           /\ worker' = worker
           /\ Cardinality({ id \in DOMAIN downloads' :
                              downloads'[id].URL = handler[p].url }) = 1

FileGone(dl) ==
  dl.Status = "completed" /\ dl.Filepath # "" /\ dl.Filepath \notin DOMAIN files

\* C6 as stated: after ClearFailed no record is failed, and every record that
\* was in_progress or completed is still present, unchanged by ClearFailed.
C6_ClearFailedAsStated ==
  [][ \A p \in Handlers :
        /\ IsClearSweep(p) =>
             \A id \in DOMAIN downloads :
               downloads[id].Status # "failed"
                 => id \in DOMAIN downloads' /\ downloads'[id] = downloads[id]
        /\ IsClearDelete(p) =>
             /\ \A id \in DOMAIN downloads' : downloads'[id].Status # "failed"
             /\ \A id \in DOMAIN downloads :
                  downloads[id].Status # "failed"
                    => id \in DOMAIN downloads' /\ downloads'[id] = downloads[id]
    ]_vars

\* C6 as amended: after ClearFailed no record is failed, and every
\* in_progress record, and every completed record whose file exists when
\* ClearFailed's sweep runs, is still present, unchanged by ClearFailed.
C6_ClearFailedFrame ==
  [][ \A p \in Handlers :
        /\ IsClearSweep(p) =>
             \A id \in DOMAIN downloads :
               ~FileGone(downloads[id])
                 => id \in DOMAIN downloads' /\ downloads'[id] = downloads[id]
        /\ IsClearDelete(p) =>
             /\ \A id \in DOMAIN downloads' : downloads'[id].Status # "failed"
             /\ \A id \in DOMAIN downloads :
                  downloads[id].Status # "failed"
                    => id \in DOMAIN downloads' /\ downloads'[id] = downloads[id]
    ]_vars

\* a ClearFailed call has returned: it removed a failed record and a
\* completed one is still there
C6_Witness ==
  \E p \in Handlers :
    /\ handler[p].pc = "done"
    /\ handler[p].resp.message = "Failed downloads cleared"
    /\ handler[p].removed # {}
    /\ \E id \in DOMAIN downloads :
         /\ downloads[id].Status = "completed"
         /\ downloads[id].Filepath \in DOMAIN files

\* C7: the List call after a completed record's file was deleted does not
\* return that record; it returns the completed records whose file exists.
C7_ListDropsDeleted ==
  [][ \A p \in Handlers :
        /\ (handler[p].pc = "idle" /\ handler'[p].pc = "list_snap") =>
             \A id \in DOMAIN downloads :
               IF FileGone(downloads[id])
               THEN \A k \in DOMAIN downloads' :
                      downloads'[k].Owner # downloads[id].Owner
               ELSE id \in DOMAIN downloads' /\ downloads'[id] = downloads[id]
        /\ (handler[p].pc = "list_snap" /\ handler'[p].pc = "done") =>
             /\ \A dl \in Snapshot(downloads) : dl.Owner \notin handler[p].removed
             /\ \A id \in DOMAIN downloads : downloads[id] \in Snapshot(downloads)
    ]_vars

\* a List call is about to answer: its sweep removed a record, and a
\* completed record whose file exists is in the registry
C7_Witness ==
  \E p \in Handlers :
    /\ handler[p].pc = "list_snap"
    /\ handler[p].removed # {}
    /\ \E id \in DOMAIN downloads :
         /\ downloads[id].Status = "completed"
         /\ downloads[id].Filepath \in DOMAIN files

\* C11: a ClearFailed call that follows a ClearFailed call, with nothing else
\* requested, no download becoming failed or completed and no file deleted
\* since the first call began, removes nothing: its sweep and its deletion
\* leave the registry as it is.
C11_ClearFailedIdempotent ==
  [][ \A p \in Handlers :
        /\ (IsClearSweep(p) /\ quiet.calls >= 1 /\ ~quiet.completed)
             => downloads' = downloads
        /\ (IsClearDelete(p) /\ quiet.calls = 2 /\ ~quiet.completed)
             => downloads' = downloads
    ]_vars

\* C12: once a record's status is completed or failed, no later step changes
\* any of its fields: the record stays as it is for as long as its id is in
\* the registry.
C12_TerminalRecordFrozen ==
  [][ \A id \in (DOMAIN downloads) \cap (DOMAIN downloads') :
        downloads[id].Status \in {"completed", "failed"}
          => Fields(downloads'[id]) = Fields(downloads[id])
    ]_vars

\* the handler is inside a blocking I/O call: os.Stat of a completed record's
\* file in the sweep, or c.JSON writing the response
InIO(p) ==
  \/ /\ handler[p].pc \in SweepPcs
     /\ \E id \in DOMAIN downloads :
          downloads[id].Filepath # "" /\ downloads[id].Status = "completed"
  \/ handler[p].pc \in WritePcs

\* C13: no operation holds the registry lock while it performs a blocking I/O
\* call: a handler that is executing the sweep's stat or a response write
\* does not hold downloadsMu.
C13_NoIOUnderLock == \A p \in Handlers : ~(Holds(p) /\ InIO(p))

\* at most one handler holds downloadsMu
MutualExclusion == Cardinality({ p \in Handlers : Holds(p) }) <= 1

\* the record of worker w shows the Speed computed from the chunk w has just
\* read, while its SizeCurrent and Progress are still those of the chunk
\* before
Torn(w) ==
  /\ worker[w].pc = "size"
  /\ worker[w].id \in DOMAIN downloads
  /\ downloads[worker[w].id].SizeCurrent # worker[w].sizeCurrent

\* C14: the worker publishes size_current, speed and progress of a chunk
\* atomically: no List snapshot copies a record whose speed is that of chunk
\* k while its size_current and progress are those of chunk k-1.
C14_ListSeesWholeChunk ==
  [][ \A p \in Handlers :
        ( /\ handler[p].pc = "list_snap"
          /\ handler'[p].pc \in {"done", "list_write"} )
          => \A w \in Workers : ~Torn(w)
    ]_vars

\* the float64 is a number from 0 to 100
Percent(x) == x[2] > 0 /\ 0 <= x[1] /\ x[1] <= 100 * x[2]

\* C15: every record's progress lies in the range 0..100 and is never
\* negative, infinite or undefined; while the declared total is 0 or unknown
\* (-1) the published progress stays 0.
C15_ProgressInRange ==
  \A id \in DOMAIN downloads :
    /\ Percent(downloads[id].Progress)
    /\ downloads[id].SizeTotal <= 0 => downloads[id].Progress = Zero

\* C16: a worker never dereferences a record that has been removed: every
\* write of a worker finds its record in the registry or is a no-op, so no
\* goroutine panics on a nil *Download.
C16_NoNilDereference == ~panicked

\* every download that was started has its own record in the registry
OwnRecords ==
  \A v \in Started : \E id \in DOMAIN downloads : downloads[id].Owner = v

\* C17: at the moment a worker sets its record's status to completed, a file
\* exists at the record's filepath (the worker's temp file, promoted), also
\* when another worker's URL ends in the same file name, so that the next
\* sweep does not remove the record. Stated for downloads that each have
\* their own record, with the worker's own path in it.
C17_CompletedFileIsOwn ==
  [][ \A w \in Workers :
        ( /\ worker[w].pc = "complete"
          /\ worker'[w].pc = "done"
          /\ OwnRecords
          /\ worker[w].id \in DOMAIN downloads'
          /\ downloads'[worker[w].id].Owner = w
          /\ downloads'[worker[w].id].Filepath = worker[w].finalPath )
          => /\ downloads'[worker[w].id].Status = "completed"
             /\ worker[w].finalPath \in DOMAIN files
             /\ worker[w].id \notin Invalid(downloads', files')
    ]_vars

\* the URLs that have a failed record
FailedURLs(dls) == { dls[id].URL : id \in Failed(dls) }

\* C18: a Submit of a URL that has a failed record in the registry answers
\* 'already exists' with the id of a record of that URL, inserts no record
\* and starts no worker; and the URL keeps a record, so that no Submit starts
\* a new download for it, until a ClearFailed call deletes the failed record.
C18_FailedBlocksResubmit ==
  [][ /\ \A p \in Handlers :
           ( /\ handler[p].pc = "add_check"
             /\ handler[p].url \in FailedURLs(downloads)
             /\ handler'[p] # handler[p] )
             => /\ handler'[p].pc = "done"
                /\ handler'[p].resp.message = "Download already exists"
                /\ handler'[p].resp.id \in FindURL(downloads, handler[p].url)
                /\ downloads' = downloads
                /\ worker' = worker
      /\ \A url \in FailedURLs(downloads) :
           FindURL(downloads', url) = {} => \E p \in Handlers : IsClearDelete(p)
    ]_vars

\* worker w ends on a Read error other than io.EOF or on a Write error
ReadOrWriteFails(w) ==
  worker[w].pc \in {"read", "fail"} /\ worker'[w].pc = "done"

\* C19: when a read of the body returns an error other than end-of-stream,
\* or a write of a chunk fails, the worker sets its record's status to failed
\* and stops: it does not rename the temp file, the temp file stays on disk,
\* and the failed record of a worker that has stopped so never becomes
\* completed.
C19_ReadWriteErrorFails ==
  [][ /\ \A w \in Workers :
           ReadOrWriteFails(w)
             => /\ worker[w].id \in DOMAIN downloads'
                     => downloads'[worker[w].id].Status = "failed"
                /\ files' = files
                /\ worker[w].tempPath \in DOMAIN files'
      /\ \A id \in DOMAIN downloads :
           ( /\ Same(id)
             /\ downloads[id].Status = "failed"
             /\ worker[downloads[id].Owner].pc = "done"
             /\ worker[downloads[id].Owner].err = "err" )
             => downloads'[id].Status # "completed"
    ]_vars

\* C20: under fair scheduling every download that has been started
\* terminates: its goroutine returns, whatever Submit and ClearFailed calls
\* are made in the meantime.
C20_WorkerTerminates ==
  \A w \in Workers : (w \in Running) ~> (worker[w].pc = "done")

====
